---- MODULE Spec2Model ----
(***************************************************************************)
(* A model of app.py: the core routine get_gemini_variations and the       *)
(* Streamlit driver that calls it once per keyword.                        *)
(*                                                                         *)
(* A Python str is a sequence of one-character strings, so that strip,     *)
(* split, the substring test and the f-string of the code are computed     *)
(* character by character.  A credential is an opaque string: the code     *)
(* only tests it for emptiness and hands it to the client library.         *)
(***************************************************************************)
EXTENDS Naturals, Sequences, FiniteSets

(* ------------------------------ bounds --------------------------------- *)

\* Pieces in a free response text of the parsing specification.
MaxPieces == 3
\* Pieces in the remainder of one line of a numbered response.
MaxBody == 1
\* Pieces in a text the service returns to a call.
MaxRespPieces == 2
\* Characters in the driver's text area.
MaxInput == 4
\* Characters in the keyword of a direct call.
MaxKeyword == 2

\* "Generate exactly 5 possible variations": the prompt's line count.
NumVariations == 5

(* --------------------------- Python strings ---------------------------- *)

\* The characters str.strip() removes that the inputs below can hold.
Whitespace == {" ", "\n", "\t", "\r"}

Digits == {"0", "1", "2", "3", "4", "5", "6", "7", "8", "9"}

RECURSIVE LStrip(_)
LStrip(s) ==
    IF s # <<>> /\ Head(s) \in Whitespace THEN LStrip(Tail(s)) ELSE s

RECURSIVE RStrip(_)
RStrip(s) ==
    IF s # <<>> /\ s[Len(s)] \in Whitespace
    THEN RStrip(SubSeq(s, 1, Len(s) - 1))
    ELSE s

\* str.strip()
Strip(s) == RStrip(LStrip(s))

\* str.split('\n'): always at least one piece, empty pieces kept.
RECURSIVE SplitLines(_)
SplitLines(s) ==
    IF \E i \in 1..Len(s) : s[i] = "\n"
    THEN LET i == CHOOSE j \in 1..Len(s) :
                      /\ s[j] = "\n"
                      /\ \A k \in 1..(j - 1) : s[k] # "\n"
         IN <<SubSeq(s, 1, i - 1)>> \o SplitLines(SubSeq(s, i + 1, Len(s)))
    ELSE <<s>>

\* Positions where '. ' starts in line.
DotSpaceAt(line) ==
    {i \in 1..(Len(line) - 1) : line[i] = "." /\ line[i + 1] = " "}

\* A plausible slip: rsplit instead of split, cutting at the last '. '.
AfterLastDotSpace(line) ==
    IF DotSpaceAt(line) = {} THEN line
    ELSE LET i == CHOOSE j \in DotSpaceAt(line) :
                      \A k \in DotSpaceAt(line) : k <= j
         IN SubSeq(line, i + 2, Len(line))

\* line.split('. ', 1)[-1]: what follows the first '. ', or the whole line.
AfterFirstDotSpace(line) ==
    IF DotSpaceAt(line) = {} THEN line
    ELSE LET i == CHOOSE j \in DotSpaceAt(line) :
                      \A k \in DotSpaceAt(line) : j <= k
         IN SubSeq(line, i + 2, Len(line))

\* sub in s
Contains(s, sub) ==
    \E i \in 0..(Len(s) - Len(sub)) : SubSeq(s, i + 1, i + Len(sub)) = sub

NonEmpty(line) == line # <<>>

\* response.text.strip().split('\n'), then the comprehension of line 45.
CleanResponse(text) ==
    LET variations_ == SplitLines(Strip(text))
        kept == SelectSeq(variations_, NonEmpty)
    IN [i \in 1..Len(kept) |-> AfterFirstDotSpace(kept[i])]

(* ------------------------------ literals ------------------------------- *)

ApiErrorMarker == <<"A", "P", "I", " ", "E", "r", "r", "o", "r">>

ErrorMarker == <<"E", "r", "r", "o", "r", ":">>

\* "Error: Keyword cannot be empty."
EmptyKeywordMessage ==
    ErrorMarker \o <<" ", "K", "e", "y", "w", "o", "r", "d", " ",
                     "c", "a", "n", "n", "o", "t", " ", "b", "e", " ",
                     "e", "m", "p", "t", "y", ".">>

\* A plausible slip: the message names no keyword.
ApiErrorMessageNoKeyword(keyword) ==
    ApiErrorMarker \o <<" ", "f", "o", "r", " ", "k", "e", "y", "w", "o",
                        "r", "d", ":", " ", "'", "'">>

\* f"API Error for keyword: '{keyword}'"
ApiErrorMessage(keyword) ==
    ApiErrorMarker \o <<" ", "f", "o", "r", " ", "k", "e", "y", "w", "o",
                        "r", "d", ":", " ", "'">> \o keyword \o <<"'">>

(* ------------------------------- inputs -------------------------------- *)

\* All concatenations of at most n of the pieces.
RECURSIVE Texts(_, _)
Texts(pieces, n) ==
    IF n = 0 THEN {<<>>}
    ELSE LET shorter == Texts(pieces, n - 1)
         IN shorter \cup {t \o p : t \in shorter, p \in pieces}

FreePieces == {<<"1">>, <<".">>, <<" ">>, <<"\n">>, <<"a">>, ApiErrorMarker}

FreeTexts == Texts(FreePieces, MaxPieces)

BodyPieces == {<<"a">>, <<".", " ">>}

Bodies == Texts(BodyPieces, MaxBody)

\* The i-th line of a numbered response: "<i>. " and the remainder.
DigitOf(i) == <<"0", "1", "2", "3", "4", "5", "6", "7", "8", "9">>[i + 1]

NumberedLine(i, body) == <<DigitOf(i), ".", " ">> \o body

RECURSIVE JoinLines(_)
JoinLines(lines) ==
    IF Len(lines) = 0 THEN <<>>
    ELSE IF Len(lines) = 1 THEN lines[1]
    ELSE lines[1] \o <<"\n">> \o JoinLines(Tail(lines))

NumberedText(bodies) ==
    JoinLines([i \in 1..Len(bodies) |-> NumberedLine(i, bodies[i])])

ServicePieces == {<<"a">>, <<"\n">>, ApiErrorMarker}

ServiceTexts == Texts(ServicePieces, MaxRespPieces)

Credentials == {"", "k1", "k2"}

InputTexts == Texts({<<"a">>, <<" ">>, <<"\n">>}, MaxInput)

CallKeywords == Texts({<<"a">>}, MaxKeyword)

\* The threads of the process: each Streamlit session runs the script on its own.
Threads == {"main", "other"}

\* The thread of the modelled driver session.
Main == "main"

\* Where a fault can be raised inside the try block (lines 26, 27, 40, 43).
Stages == {"configure", "model", "request", "text"}

(* ------------------------------- state --------------------------------- *)

VARIABLES
    \* the client library's process-wide credential (genai.configure)
    genai_api_key,
    \* per thread, the running call of get_gemini_variations
    cpc,            \* "none", "start", "configured", "built", "responded", "returned"
    c_api_key,      \* the api_key argument
    c_keyword,      \* the keyword argument
    c_requests,     \* credentials of the requests this call sent, in order
    c_fault,        \* the stage at which the library raised in this call, or "none"
    c_errors,       \* st.error notifications of this call: the fault each reports
    c_ret,          \* the return statement taken: "none", "empty", "success", "error"
    c_result,       \* the returned list
    \* the driver script of the main session
    pc,             \* "idle", "loop", "calling", "done", "crashed"
    gemini_api_key, \* the sidebar's key field
    keywords_input, \* the sidebar's text area
    keywords,       \* line 90
    idx,            \* position of the for loop in keywords
    variations,     \* line 97
    warning,        \* st.warning shown: "none", "key", "keywords"
    spinner,        \* keywords named by st.spinner, in order (one per invocation)
    expanders,      \* what each expander rendered, in order
    \* the response parser on its own
    p_pc,           \* "input", "parsed"
    p_bodies,       \* the remainders of a numbered response, or <<>> for a free text
    p_text,         \* the response text
    p_out           \* the cleaned variations

callVars == <<genai_api_key, cpc, c_api_key, c_keyword, c_requests, c_fault,
              c_errors, c_ret, c_result>>

driverVars == <<pc, gemini_api_key, keywords_input, keywords, idx, variations,
                warning, spinner, expanders>>

parseVars == <<p_pc, p_bodies, p_text, p_out>>

vars == <<callVars, driverVars, parseVars>>

(* ------------------------ get_gemini_variations ------------------------ *)

\* A plausible slip: the guard of line 21 never taken.
KeywordNeverEmpty(keyword) == FALSE

\* not keyword
NotKeyword(keyword) == keyword = <<>>

\* A plausible slip: a retry, the request sent a second time.
SendTwice(requests, credential) == requests \o <<credential, credential>>

\* model.generate_content(prompt): one request, under the credential the
\* library holds at that moment.
Send(requests, credential) == Append(requests, credential)

\* The call enters: a fresh frame for thread t.
Enter(t, api_key, keyword) ==
    /\ cpc' = [cpc EXCEPT ![t] = "start"]
    /\ c_api_key' = [c_api_key EXCEPT ![t] = api_key]
    /\ c_keyword' = [c_keyword EXCEPT ![t] = keyword]
    /\ c_requests' = [c_requests EXCEPT ![t] = <<>>]
    /\ c_fault' = [c_fault EXCEPT ![t] = "none"]
    /\ c_errors' = [c_errors EXCEPT ![t] = <<>>]
    /\ c_ret' = [c_ret EXCEPT ![t] = "none"]
    /\ c_result' = [c_result EXCEPT ![t] = <<>>]
    /\ UNCHANGED genai_api_key

\* A fault raised at stage inside the try block, and the except clause:
\* st.error(...); return [f"API Error for keyword: '{keyword}'"]
Handler(t, stage) ==
    /\ c_fault' = [c_fault EXCEPT ![t] = stage]
    /\ cpc' = [cpc EXCEPT ![t] = "returned"]
    /\ c_errors' = [c_errors EXCEPT ![t] = Append(@, stage)]
    /\ c_ret' = [c_ret EXCEPT ![t] = "error"]
    /\ c_result' = [c_result EXCEPT ![t] = <<ApiErrorMessage(c_keyword[t])>>]

\* Lines 21-26: the guard, then genai.configure(api_key=api_key).
Configure(t) ==
    /\ cpc[t] = "start"
    /\ UNCHANGED <<c_api_key, c_keyword, driverVars, parseVars>>
    /\ IF NotKeyword(c_keyword[t])
       THEN /\ cpc' = [cpc EXCEPT ![t] = "returned"]
            /\ c_ret' = [c_ret EXCEPT ![t] = "empty"]
            /\ c_result' = [c_result EXCEPT ![t] = <<EmptyKeywordMessage>>]
            /\ UNCHANGED <<genai_api_key, c_requests, c_fault, c_errors>>
       ELSE \E raised \in BOOLEAN :
                IF raised
                THEN /\ Handler(t, "configure")
                     /\ UNCHANGED <<genai_api_key, c_requests>>
                ELSE /\ genai_api_key' = c_api_key[t]
                     /\ cpc' = [cpc EXCEPT ![t] = "configured"]
                     /\ UNCHANGED <<c_requests, c_fault, c_errors, c_ret, c_result>>

\* Line 27: genai.GenerativeModel('gemini-1.5-flash').
BuildModel(t) ==
    /\ cpc[t] = "configured"
    /\ UNCHANGED <<genai_api_key, c_api_key, c_keyword, c_requests,
                   driverVars, parseVars>>
    /\ \E raised \in BOOLEAN :
           IF raised
           THEN Handler(t, "model")
           ELSE /\ cpc' = [cpc EXCEPT ![t] = "built"]
                /\ UNCHANGED <<c_fault, c_errors, c_ret, c_result>>

\* Line 40: model.generate_content(prompt), answered or failing.
Request(t) ==
    /\ cpc[t] = "built"
    /\ c_requests' = [c_requests EXCEPT ![t] = Send(@, genai_api_key)]
    /\ UNCHANGED <<genai_api_key, c_api_key, c_keyword, driverVars, parseVars>>
    /\ \E raised \in BOOLEAN :
           IF raised
           THEN Handler(t, "request")
           ELSE /\ cpc' = [cpc EXCEPT ![t] = "responded"]
                /\ UNCHANGED <<c_fault, c_errors, c_ret, c_result>>

\* Lines 43-47: response.text (which can raise), the clean-up, the return.
ReadText(t) ==
    /\ cpc[t] = "responded"
    /\ UNCHANGED <<genai_api_key, c_api_key, c_keyword, c_requests,
                   driverVars, parseVars>>
    /\ \E raised \in BOOLEAN :
           IF raised
           THEN Handler(t, "text")
           ELSE \E text \in ServiceTexts :
                    /\ cpc' = [cpc EXCEPT ![t] = "returned"]
                    /\ c_ret' = [c_ret EXCEPT ![t] = "success"]
                    /\ c_result' = [c_result EXCEPT ![t] = CleanResponse(text)]
                    /\ UNCHANGED <<c_fault, c_errors>>

(* ------------------------------ the driver ----------------------------- *)

KeptLine(k) == Strip(k) # <<>>

\* A plausible slip: the blank lines are not discarded.
KeywordsUnfiltered(input) ==
    LET kept == SplitLines(input)
    IN [i \in 1..Len(kept) |-> Strip(kept[i])]

\* [k.strip() for k in keywords_input.split('\n') if k.strip()]
Keywords(input) ==
    LET kept == SelectSeq(SplitLines(input), KeptLine)
    IN [i \in 1..Len(kept) |-> Strip(kept[i])]

\* f"{i}. {variation}" for i, variation in enumerate(variations, 1)
Markdown(list) == [i \in 1..Len(list) |-> NumberedLine(i, list[i])]

\* Lines 83-92: the button is pressed with the sidebar's two fields filled in.
Submit ==
    /\ pc = "idle"
    /\ \E key \in Credentials, input \in InputTexts :
           /\ gemini_api_key' = key
           /\ keywords_input' = input
           /\ IF key = ""
              THEN /\ warning' = "key"
                   /\ pc' = "done"
                   /\ UNCHANGED keywords
              ELSE IF input = <<>>
              THEN /\ warning' = "keywords"
                   /\ pc' = "done"
                   /\ UNCHANGED keywords
              ELSE /\ keywords' = Keywords(input)
                   /\ pc' = "loop"
                   /\ UNCHANGED warning
    /\ UNCHANGED <<idx, variations, spinner, expanders, callVars, parseVars>>

\* Lines 95-97: the next keyword, its spinner, the call.
Invoke ==
    /\ pc = "loop"
    /\ idx <= Len(keywords)
    /\ spinner' = Append(spinner, keywords[idx])
    /\ Enter(Main, gemini_api_key, keywords[idx])
    /\ pc' = "calling"
    /\ UNCHANGED <<gemini_api_key, keywords_input, keywords, idx, variations,
                   warning, expanders, parseVars>>

\* Lines 97-104: the call has returned; the expander shows its result.
\* variations[0] of an empty list raises IndexError, which ends the script.
Display ==
    /\ pc = "calling"
    /\ cpc[Main] = "returned"
    /\ variations' = c_result[Main]
    /\ IF c_result[Main] = <<>>
       THEN /\ pc' = "crashed"
            /\ expanders' = Append(expanders,
                   [keyword |-> keywords[idx], kind |-> "exception",
                    lines |-> <<>>, ret |-> c_ret[Main]])
            /\ UNCHANGED idx
       ELSE /\ pc' = "loop"
            /\ idx' = idx + 1
            /\ IF Contains(c_result[Main][1], ApiErrorMarker)
               THEN expanders' = Append(expanders,
                        [keyword |-> keywords[idx], kind |-> "error",
                         lines |-> <<c_result[Main][1]>>, ret |-> c_ret[Main]])
               ELSE expanders' = Append(expanders,
                        [keyword |-> keywords[idx], kind |-> "list",
                         lines |-> Markdown(c_result[Main]), ret |-> c_ret[Main]])
    /\ UNCHANGED <<gemini_api_key, keywords_input, keywords, warning, spinner,
                   callVars, parseVars>>

\* Line 95: the for loop is exhausted and the script ends.
Finish ==
    /\ pc = "loop"
    /\ idx > Len(keywords)
    /\ pc' = "done"
    /\ UNCHANGED <<gemini_api_key, keywords_input, keywords, idx, variations,
                   warning, spinner, expanders, callVars, parseVars>>

(* --------------------------- initial states ---------------------------- *)

\* The library's credential before any genai.configure.
Unset == "unset"

CallInit ==
    /\ genai_api_key = Unset
    /\ cpc = [t \in Threads |-> "none"]
    /\ c_api_key = [t \in Threads |-> ""]
    /\ c_keyword = [t \in Threads |-> <<>>]
    /\ c_requests = [t \in Threads |-> <<>>]
    /\ c_fault = [t \in Threads |-> "none"]
    /\ c_errors = [t \in Threads |-> <<>>]
    /\ c_ret = [t \in Threads |-> "none"]
    /\ c_result = [t \in Threads |-> <<>>]

DriverInit ==
    /\ pc = "idle"
    /\ gemini_api_key = ""
    /\ keywords_input = <<>>
    /\ keywords = <<>>
    /\ idx = 1
    /\ variations = <<>>
    /\ warning = "none"
    /\ spinner = <<>>
    /\ expanders = <<>>

ParseIdle ==
    /\ p_pc = "parsed"
    /\ p_bodies = <<>>
    /\ p_text = <<>>
    /\ p_out = <<>>

(* ---------------- the driver session: specification Spec --------------- *)

Init == CallInit /\ DriverInit /\ ParseIdle

CallConfigure == Configure(Main)

CallBuildModel == BuildModel(Main)

CallRequest == Request(Main)

CallReadText == ReadText(Main)

Next ==
    \/ Submit
    \/ Invoke
    \/ CallConfigure
    \/ CallBuildModel
    \/ CallRequest
    \/ CallReadText
    \/ Display
    \/ Finish

Spec == Init /\ [][Next]_vars

(* ------- direct calls from two threads: specification SpecCall --------- *)

\* A thread calls get_gemini_variations(api_key, keyword), any arguments.
Call(t) ==
    /\ cpc[t] \in {"none", "returned"}
    /\ \E api_key \in Credentials, keyword \in CallKeywords :
           Enter(t, api_key, keyword)
    /\ UNCHANGED <<driverVars, parseVars>>

ThreadCall == \E t \in Threads : Call(t)

ThreadConfigure == \E t \in Threads : Configure(t)

ThreadBuildModel == \E t \in Threads : BuildModel(t)

ThreadRequest == \E t \in Threads : Request(t)

ThreadReadText == \E t \in Threads : ReadText(t)

InitCall == CallInit /\ DriverInit /\ ParseIdle

NextCall ==
    \/ ThreadCall
    \/ ThreadConfigure
    \/ ThreadBuildModel
    \/ ThreadRequest
    \/ ThreadReadText

SpecCall == InitCall /\ [][NextCall]_vars

(* ------------ the response parser: specification SpecParse ------------- *)

InitParse ==
    /\ CallInit
    /\ DriverInit
    /\ p_pc = "input"
    /\ p_out = <<>>
    /\ p_bodies \in {<<>>} \cup [1..NumVariations -> Bodies]
    /\ IF p_bodies = <<>>
       THEN p_text \in FreeTexts
       ELSE p_text = NumberedText(p_bodies)

\* Lines 43-45 applied to the response text.
Parse ==
    /\ p_pc = "input"
    /\ p_out' = CleanResponse(p_text)
    /\ p_pc' = "parsed"
    /\ UNCHANGED <<p_bodies, p_text, callVars, driverVars>>

NextParse == Parse

SpecParse == InitParse /\ [][NextParse]_vars

(* ------------------------------- claims -------------------------------- *)

\* The sentinel strings as the specification spells them.
EmptyKeywordSentinel ==
    <<"E", "r", "r", "o", "r", ":", " ", "K", "e", "y", "w", "o", "r", "d",
      " ", "c", "a", "n", "n", "o", "t", " ", "b", "e", " ", "e", "m", "p",
      "t", "y", ".">>

ApiErrorSentinel(keyword) ==
    <<"A", "P", "I", " ", "E", "r", "r", "o", "r", " ", "f", "o", "r", " ",
      "k", "e", "y", "w", "o", "r", "d", ":", " ", "'">> \o keyword \o <<"'">>

\* line starts with "<digits>. "
StartsWithMarker(line) ==
    \E n \in 1..Len(line) :
        /\ \A k \in 1..n : line[k] \in Digits
        /\ Len(line) >= n + 2
        /\ line[n + 1] = "."
        /\ line[n + 2] = " "

\* C1: a call whose keyword is the empty string, whatever its credential,
\* sends no request at any point and returns exactly
\* ["Error: Keyword cannot be empty."].
C1_EmptyKeyword ==
    \A t \in Threads :
        (cpc[t] # "none" /\ c_keyword[t] = <<>>) =>
            /\ c_requests[t] = <<>>
            /\ cpc[t] \in {"start", "returned"}
            /\ cpc[t] = "returned" => c_result[t] = <<EmptyKeywordSentinel>>

C1_Witness ==
    \E t \in Threads :
        /\ cpc[t] = "returned"
        /\ c_keyword[t] = <<>>
        /\ c_api_key[t] = "k1"
        /\ genai_api_key = "k2"

\* C2: a call with a non-empty keyword in which the library raised, at
\* whatever stage, has returned (the fault went no further) exactly
\* ["API Error for keyword: '<keyword>'"] with the keyword as passed, and
\* has notified the error channel once.
C2_FailureContained ==
    \A t \in Threads :
        c_fault[t] # "none" =>
            /\ c_keyword[t] # <<>>
            /\ cpc[t] = "returned"
            /\ c_result[t] = <<ApiErrorSentinel(c_keyword[t])>>
            /\ Len(c_errors[t]) = 1

C2_Witness ==
    \E t, u \in Threads :
        /\ c_fault[t] = "text"
        /\ c_fault[u] = "configure"
        /\ c_result[t] = <<ApiErrorSentinel(<<"a">>)>>

\* C4 as claimed: every returned call with a non-empty keyword sent exactly
\* one request.
C4_ExactlyOneRequest ==
    \A t \in Threads :
        (cpc[t] = "returned" /\ c_keyword[t] # <<>>) => Len(c_requests[t]) = 1

\* C4 amended: a call never sends more than one request; a returned call with
\* a non-empty keyword sent exactly one, unless the fault was raised at
\* configuration or at model construction, before the request: then none.
C4_AtMostOneRequest ==
    \A t \in Threads :
        /\ Len(c_requests[t]) <= 1
        /\ (cpc[t] = "returned" /\ c_keyword[t] # <<>>) =>
               Len(c_requests[t]) =
                   IF c_fault[t] \in {"configure", "model"} THEN 0 ELSE 1

C4_Witness ==
    \E t, u \in Threads :
        /\ cpc[t] = "returned" /\ c_ret[t] = "success" /\ Len(c_requests[t]) = 1
        /\ cpc[u] = "returned" /\ c_fault[u] = "request" /\ Len(c_requests[u]) = 1

\* C9: no call changes the library's process-wide credential, and every
\* request a call sent went out under the credential passed to that call.
C9_NoSharedState ==
    /\ genai_api_key = Unset
    /\ \A t \in Threads :
           \A i \in 1..Len(c_requests[t]) : c_requests[t][i] = c_api_key[t]

\* C9, the interleaving alone: every request a call sent went out under the
\* credential passed to that call.
C9_OwnCredential ==
    \A t \in Threads :
        \A i \in 1..Len(c_requests[t]) : c_requests[t][i] = c_api_key[t]

C8_Passthrough ==
    p_pc = "parsed" =>
        LET lines == SelectSeq(SplitLines(Strip(p_text)), NonEmpty)
        IN /\ Len(p_out) = Len(lines)
           /\ \A i \in 1..Len(lines) :
                  ~StartsWithMarker(lines[i]) => p_out[i] = lines[i]

\* C7: every returned call holds a non-empty list, and the driver's read of
\* variations[0] never fails.
C7_NonEmptyResult ==
    /\ \A t \in Threads : cpc[t] = "returned" => Len(c_result[t]) >= 1
    /\ pc # "crashed"

\* C6: the first element of a returned (non-empty) list holds the marker
\* "API Error" or "Error:" exactly when the call took an error return, and
\* the driver rendered a result as an error exactly when its call failed.
C6_MarkerIffError ==
    /\ \A t \in Threads :
           (cpc[t] = "returned" /\ c_result[t] # <<>>) =>
               ((Contains(c_result[t][1], ApiErrorMarker)
                    \/ Contains(c_result[t][1], ErrorMarker))
                <=> c_ret[t] \in {"empty", "error"})
    /\ \A i \in 1..Len(expanders) :
           expanders[i].kind # "exception" =>
               (expanders[i].kind = "error" <=> expanders[i].ret = "error")

\* C5: a run that got past the two input checks ends with the core invoked
\* once per trimmed non-blank input line, in input order, and with every
\* keyword, the last one included, displayed.
C5_AllKeywordsProcessed ==
    /\ pc # "crashed"
    /\ (pc = "done" /\ warning = "none") =>
           /\ spinner = keywords
           /\ Len(expanders) = Len(keywords)
           /\ \A i \in 1..Len(keywords) :
                  /\ expanders[i].keyword = keywords[i]
                  /\ expanders[i].kind # "exception"

\* C10: the driver invokes the core only with a non-empty credential and a
\* keyword that is non-empty and neither starts nor ends with whitespace; a
\* submit with an empty credential or an empty text makes no call; the
\* empty-keyword return is never taken.
C10_DriverPreconditions ==
    /\ \A i \in 1..Len(spinner) :
           /\ spinner[i] # <<>>
           /\ spinner[i][1] \notin Whitespace
           /\ spinner[i][Len(spinner[i])] \notin Whitespace
    /\ cpc[Main] # "none" =>
           /\ c_api_key[Main] # ""
           /\ c_keyword[Main] = spinner[Len(spinner)]
           /\ c_ret[Main] # "empty"
    /\ (pc # "idle" /\ (gemini_api_key = "" \/ keywords_input = <<>>)) =>
           /\ pc = "done"
           /\ warning # "none"
           /\ spinner = <<>>
           /\ cpc[Main] = "none"

\* Two keywords reached the core, a blank line did not.
C10_Witness ==
    /\ pc = "done"
    /\ Len(spinner) = 2
    /\ Len(SplitLines(keywords_input)) > Len(spinner)
    /\ c_ret[Main] = "success"

====
